---- MODULE Spec2Model ----
(***************************************************************************)
(* A model of the migration-path pipeline of                               *)
(* data/data_support_scripts/build_migration_paths.py.                     *)
(*                                                                         *)
(* Numbers.  The script computes on Python floats.  Input coordinates and  *)
(* densities are modelled as integers; every derived value (a normalised   *)
(* density, a target latitude, a moving average, a rounded coordinate) is  *)
(* an exact rational [num, den] in lowest terms with den > 0, so that two  *)
(* rationals are equal as numbers iff they are equal as records.  Floating *)
(* point rounding error is not modelled.                                   *)
(*                                                                         *)
(* Dictionaries.  A Python dict is modelled as the sequence of its         *)
(* (key, value) items in insertion order, keys unique, since iteration     *)
(* order decides ties in the script.                                       *)
(*                                                                         *)
(* Exceptions.  A function that can raise returns a record                 *)
(* [raised |-> name of the exception or "", value |-> the returned value]. *)
(***************************************************************************)
EXTENDS Integers, Sequences, FiniteSets, Bags, TLC

VARIABLES
    fn,             \* the function applied in isolation ("idle" before the call)
    fn_args,        \* the arguments it was applied to
    fn_result,      \* what it returned or raised
    pc,             \* position of the command-line run (main, build_migration_json)
    input_exists,   \* whether the --input path exists
    heatmap,        \* content of the input file: [frames |-> ...]
    args,           \* parsed command-line flags
    exclude_regions,
    density_map,
    normalized,
    clusters,
    idx,            \* number of clusters already processed by the flyway loop
    paths,
    output_file,    \* content of the file at output_path
    raised          \* the exception that ended the run, "" if none

fn_vars == <<fn, fn_args, fn_result>>
run_vars == <<pc, input_exists, heatmap, args, exclude_regions, density_map,
              normalized, clusters, idx, paths, output_file, raised>>
vars == <<fn, fn_args, fn_result, pc, input_exists, heatmap, args,
          exclude_regions, density_map, normalized, clusters, idx, paths,
          output_file, raised>>

----------------------------------------------------------------------------
(* Bounds of the model *)

MaxFrames == 2
MaxFrameCells == 2
MaxCells == 3
MaxRegions == 2
MaxWaypoints == 4
MaxPathLen == 5
MaxWindow == 4
MaxRecords == 3
MaxRows == 4
MaxAlbertaRows == 6
MaxObservations == 3

----------------------------------------------------------------------------
(* Program constants *)

LonSplit == -20
EuropeMinLon == -10
EuropeMaxLon == 45
EuropeMinLat == 35
EuropeMaxLat == 72
AfricaMinLon == -20
AfricaMaxLon == 51
NumWaypoints == 25
SmoothWindow == 5
RoundDigitsScale == 1000

----------------------------------------------------------------------------
(* Exact rational arithmetic standing for Python float arithmetic *)

Abs(x) == IF x < 0 THEN -x ELSE x

RECURSIVE GCD(_, _)
GCD(a, b) == IF b = 0 THEN a ELSE GCD(b, a % b)

\* n / d for d # 0, in lowest terms with a positive denominator
Rat(n, d) ==
    LET s == IF d < 0 THEN -1 ELSE 1
        g == GCD(Abs(n), Abs(d))
    IN  [num |-> (s * n) \div g, den |-> (s * d) \div g]

ToRat(n) == [num |-> n, den |-> 1]

RatAdd(a, b) == Rat(a.num * b.den + b.num * a.den, a.den * b.den)

RatSub(a, b) == Rat(a.num * b.den - b.num * a.den, a.den * b.den)

RatMulInt(a, k) == Rat(a.num * k, a.den)

RatDivInt(a, k) == Rat(a.num, a.den * k)

RatLeq(a, b) == a.num * b.den <= b.num * a.den

RatLt(a, b) == a.num * b.den < b.num * a.den

\* a point with integer coordinates, as a point with rational coordinates
ToRatPoint(p) == <<ToRat(p[1]), ToRat(p[2])>>

\* round(x, 3): to the nearest multiple of 1/1000, a tie going to the even one
round3(x) ==
    LET n == x.num * RoundDigitsScale
        f == n \div x.den
        r == n - f * x.den
        k == IF 2 * r < x.den THEN f
             ELSE IF 2 * r > x.den THEN f + 1
             ELSE IF f % 2 = 0 THEN f ELSE f + 1
    IN  Rat(k, RoundDigitsScale)

----------------------------------------------------------------------------
(* dict operations on item sequences *)

Keys(m) == {m[i][1] : i \in 1..Len(m)}

HasKey(m, k) == \E i \in 1..Len(m) : m[i][1] = k

\* a lookup that never finds the key
Get_forgets(m, k, default) == default

\* m.get(k, default)
Get(m, k, default) ==
    IF HasKey(m, k) THEN m[CHOOSE i \in 1..Len(m) : m[i][1] = k][2] ELSE default

\* m[k] = v: an existing key keeps its position, a new key goes last
Put(m, k, v) ==
    IF HasKey(m, k)
    THEN [i \in 1..Len(m) |-> IF m[i][1] = k THEN <<k, v>> ELSE m[i]]
    ELSE Append(m, <<k, v>>)

----------------------------------------------------------------------------
(* aggregate_density_over_time *)

\* the inner loop: for cell in frame['cells']
RECURSIVE aggregate_cells(_, _)
aggregate_cells(dmap, cells) ==
    IF cells = <<>> THEN dmap
    ELSE LET cell == Head(cells)
             key == <<cell[1], cell[2]>>
         IN  aggregate_cells(Put(dmap, key, Get(dmap, key, 0) + cell[3]),
                             Tail(cells))

\* the outer loop: for frame in frames
RECURSIVE aggregate_frames(_, _)
aggregate_frames(dmap, frames) ==
    IF frames = <<>> THEN dmap
    ELSE aggregate_frames(aggregate_cells(dmap, Head(frames).cells), Tail(frames))

aggregate_density_over_time(frames) == aggregate_frames(<<>>, frames)

----------------------------------------------------------------------------
(* normalize_densities *)

\* a scale that is the least density instead of the greatest
min_value(m) ==
    LET vals == {m[i][2] : i \in 1..Len(m)}
    IN  CHOOSE v \in vals : \A w \in vals : v <= w

\* max(density_map.values()) of a non-empty map
max_value(m) ==
    LET vals == {m[i][2] : i \in 1..Len(m)}
    IN  CHOOSE v \in vals : \A w \in vals : w <= v

normalize_densities(m) ==
    IF m = <<>> THEN <<>>
    ELSE LET max_density == max_value(m)
         IN  IF max_density = 0
             THEN [i \in 1..Len(m) |-> <<m[i][1], ToRat(0)>>]
             ELSE [i \in 1..Len(m) |-> <<m[i][1], Rat(m[i][2], max_density)>>]

----------------------------------------------------------------------------
(* filter_geographic_regions *)

\* the same test with the four bounds exclusive
in_region_open(lon, lat, region) ==
    /\ region[1][1] < lon /\ lon < region[1][2]
    /\ region[2][1] < lat /\ lat < region[2][2]

\* the test of line 55, for one region ((min_lon, max_lon), (min_lat, max_lat))
in_region(lon, lat, region) ==
    /\ region[1][1] <= lon /\ lon <= region[1][2]
    /\ region[2][1] <= lat /\ lat <= region[2][2]

\* the inner loop with its break: exclude is set iff some region holds the cell
excluded(lon, lat, regions) ==
    \E j \in 1..Len(regions) : in_region(lon, lat, regions[j])

filter_geographic_regions(m, regions) ==
    IF regions = <<>> THEN m
    ELSE LET keep(item) == ~ excluded(item[1][1], item[1][2], regions)
         IN  SelectSeq(m, keep)

----------------------------------------------------------------------------
(* cluster_by_longitude *)

\* a threshold test that sends longitude -20 itself to the west
is_western_inclusive(lon) == lon <= LonSplit

\* line 92: the Americas corridor
is_western(lon) == lon < LonSplit

\* americas_south_limit is <<>> for None and <<limit>> for a number
keep_western(lat, americas_south_limit) ==
    americas_south_limit = <<>> \/ lat >= americas_south_limit[1]

\* the same narrowing with the Africa band tested before the Europe box
keep_eastern_africa_first(lon, lat, europe_only, americas_only, africa_only_south) ==
    IF americas_only THEN FALSE
    ELSE IF africa_only_south
         THEN AfricaMinLon <= lon /\ lon <= AfricaMaxLon
    ELSE IF europe_only
         THEN /\ EuropeMinLon <= lon /\ lon <= EuropeMaxLon
              /\ EuropeMinLat <= lat /\ lat <= EuropeMaxLat
    ELSE TRUE

\* lines 97-107, for a cell that is not western
keep_eastern(lon, lat, europe_only, americas_only, africa_only_south) ==
    IF americas_only THEN FALSE
    ELSE IF europe_only
         THEN /\ EuropeMinLon <= lon /\ lon <= EuropeMaxLon
              /\ EuropeMinLat <= lat /\ lat <= EuropeMaxLat
    ELSE IF africa_only_south
         THEN AfricaMinLon <= lon /\ lon <= AfricaMaxLon
    ELSE TRUE

\* a list that also takes an empty cluster
listed_anyway(cluster) == <<cluster>>

\* lines 109-113: a cluster is appended only if it has a cell
listed_if_non_empty(cluster) == IF cluster # <<>> THEN <<cluster>> ELSE <<>>

\* num_clusters is never read by the function and is left out
cluster_by_longitude(m, europe_only, americas_south_limit, americas_only, africa_only_south) ==
    IF m = <<>> THEN <<>>
    ELSE LET in_west(item) ==
                 /\ is_western(item[1][1])
                 /\ keep_western(item[1][2], americas_south_limit)
             in_east(item) ==
                 /\ ~ is_western(item[1][1])
                 /\ keep_eastern(item[1][1], item[1][2], europe_only,
                                 americas_only, africa_only_south)
             western == SelectSeq(m, in_west)
             eastern == SelectSeq(m, in_east)
         IN  listed_if_non_empty(western) \o listed_if_non_empty(eastern)

----------------------------------------------------------------------------
(* find_extremes_in_cluster *)

\* a sort key that reads the longitude x[0][0]
lon_key(item) == item[1][1]

\* the sort key of line 127: x[0][1], the latitude
lat_key(item) == item[1][2]

\* an insertion that puts an item before the items of equal key
RECURSIVE insert_before_equal(_, _)
insert_before_equal(sorted, item) ==
    IF sorted = <<>> THEN <<item>>
    ELSE IF lat_key(Head(sorted)) < lat_key(item)
         THEN <<Head(sorted)>> \o insert_before_equal(Tail(sorted), item)
         ELSE <<item>> \o sorted

\* sorted() is stable: an item goes after every item whose key is not greater
RECURSIVE insert_sorted(_, _)
insert_sorted(sorted, item) ==
    IF sorted = <<>> THEN <<item>>
    ELSE IF lat_key(Head(sorted)) <= lat_key(item)
         THEN <<Head(sorted)>> \o insert_sorted(Tail(sorted), item)
         ELSE <<item>> \o sorted

RECURSIVE sorted_items(_, _)
sorted_items(sorted, rest) ==
    IF rest = <<>> THEN sorted
    ELSE sorted_items(insert_sorted(sorted, Head(rest)), Tail(rest))

\* the function without its guard: indexing the empty sorted list fails
find_extremes_in_cluster_unguarded(m) ==
    IF m = <<>> THEN [raised |-> "IndexError", value |-> <<>>]
    ELSE [raised |-> "",
          value |-> <<sorted_items(<<>>, m)[Len(m)][1], sorted_items(<<>>, m)[1][1]>>]

find_extremes_in_cluster(m) ==
    IF m = <<>> THEN [raised |-> "ValueError", value |-> <<>>]
    ELSE LET sorted_by_lat == sorted_items(<<>>, m)
             south_point == sorted_by_lat[1][1]
             north_point == sorted_by_lat[Len(sorted_by_lat)][1]
         IN  [raised |-> "", value |-> <<north_point, south_point>>]

----------------------------------------------------------------------------
(* calculate_migration_path *)

\* a choice that takes the first cell of the band, whatever its density
first_in_band(best, rest) == best

\* max(band_points, key=lambda x: x[1]): the first item of greatest density
RECURSIVE max_by_density(_, _)
max_by_density(best, rest) ==
    IF rest = <<>> THEN best
    ELSE max_by_density(IF RatLt(best[2], Head(rest)[2]) THEN Head(rest) ELSE best,
                        Tail(rest))

\* a test of the latitude range that lets equal latitudes through
negative_latitude_range(lat_range) == lat_range < 0

\* line 158: the anchors span no latitude range
no_latitude_range(lat_range) == lat_range <= 0

\* a placeholder put at the mirrored latitude
placeholder_mirrored(path, south_point, target) ==
    <<ToRat(south_point[1]), RatSub(ToRat(0), RatAdd(target, ToRat(1)))>>

\* a placeholder on the Greenwich meridian
placeholder_at_greenwich(path, south_point, target) == <<ToRat(0), target>>

\* a placeholder that always takes the longitude of the south anchor
placeholder_at_south(path, south_point, target) ==
    <<ToRat(south_point[1]), target>>

\* lines 181-187: no cell in the band; the longitude of the previous waypoint,
\* or of the south anchor when there is none, at the target latitude
placeholder(path, south_point, target) ==
    IF path # <<>>
    THEN <<path[Len(path)][1], target>>
    ELSE <<ToRat(south_point[1]), target>>

\* an end that is added to the path instead of replacing its last entry
ensure_start_and_end_appending(path, north_point, south_point) ==
    <<ToRatPoint(south_point)>> \o Tail(path) \o <<ToRatPoint(north_point)>>

\* lines 189-193: the first and last entries are set to the anchors
ensure_start_and_end(path, north_point, south_point) ==
    LET first_set == IF path[1] # ToRatPoint(south_point)
                     THEN [path EXCEPT ![1] = ToRatPoint(south_point)]
                     ELSE path
    IN  IF first_set[Len(first_set)] # ToRatPoint(north_point)
        THEN [first_set EXCEPT ![Len(first_set)] = ToRatPoint(north_point)]
        ELSE first_set

\* the densities of the cluster are rationals (the map is normalised);
\* num_waypoints >= 1.  Beside the returned path the result records, as
\* generated, the local path as the loop of lines 165-187 leaves it, before
\* lines 189-193 set its ends.
calculate_migration_path(dmap, north_point, south_point, num_waypoints) ==
    LET lat_south == south_point[2]
        lat_north == north_point[2]
        lat_range == lat_north - lat_south
    IN  IF no_latitude_range(lat_range)
        THEN [raised |-> "",
              value |-> <<ToRatPoint(south_point), ToRatPoint(north_point)>>,
              generated |-> <<>>]
        ELSE IF num_waypoints - 1 = 0
        THEN \* line 163 divides by num_waypoints - 1
             [raised |-> "ZeroDivisionError", value |-> <<>>, generated |-> <<>>]
        ELSE
        LET lat_step == Rat(lat_range, num_waypoints - 1)
            target_lat(i) == RatAdd(ToRat(lat_south), RatMulInt(lat_step, i))
            band_min(i) == RatSub(target_lat(i), RatDivInt(lat_step, 2))
            band_max(i) == RatAdd(target_lat(i), RatDivInt(lat_step, 2))
            band_points(i) ==
                LET lat_min == band_min(i)
                    lat_max == band_max(i)
                    in_band(item) ==
                        /\ RatLeq(lat_min, ToRat(item[1][2]))
                        /\ RatLeq(ToRat(item[1][2]), lat_max)
                IN  SelectSeq(dmap, in_band)
            waypoint(path, i) ==
                LET in_band == band_points(i)
                IN  IF in_band # <<>>
                    THEN ToRatPoint(max_by_density(Head(in_band),
                                                   Tail(in_band))[1])
                    ELSE placeholder(path, south_point, target_lat(i))
            RECURSIVE build(_, _)
            build(path, i) ==
                IF i = num_waypoints THEN path
                ELSE build(Append(path, waypoint(path, i)), i + 1)
            generated == build(<<>>, 0)
        IN  [raised |-> "",
             value |-> ensure_start_and_end(generated, north_point,
                                            south_point),
             generated |-> generated]

----------------------------------------------------------------------------
(* smooth_path *)

\* a guard that smooths a path exactly as long as the window
shorter_than_window(path, window_size) == Len(path) < window_size

\* line 202
fits_in_window(path, window_size) == Len(path) <= window_size

RECURSIVE sum_coordinate(_, _)
sum_coordinate(window, c) ==
    IF window = <<>> THEN ToRat(0)
    ELSE RatAdd(Head(window)[c], sum_coordinate(Tail(window), c))

\* a mean that forgets to divide by the number of points
sum_of_window(window, c) == sum_coordinate(window, c)

\* lines 214-215: sum(...) / len(window)
mean_of_window(window, c) == RatDivInt(sum_coordinate(window, c), Len(window))

smooth_path(path, window_size) ==
    IF fits_in_window(path, window_size) THEN path
    ELSE LET half_window == window_size \div 2
             smoothed_point(i) ==
                 LET start == IF i - half_window > 0 THEN i - half_window ELSE 0
                     end == IF i + half_window + 1 < Len(path)
                            THEN i + half_window + 1 ELSE Len(path)
                     window == SubSeq(path, start + 1, end)
                     avg_lon == mean_of_window(window, 1)
                     avg_lat == mean_of_window(window, 2)
                 IN  <<avg_lon, avg_lat>>
         IN  [k \in 1..Len(path) |-> smoothed_point(k - 1)]

----------------------------------------------------------------------------
(* Inputs of the functions applied in isolation *)

SeqsUpTo(S, n) == UNION {[1..k -> S] : k \in 0..n}

\* item sequences that are dicts: no key twice
IsDict(m) == \A i, j \in 1..Len(m) : i # j => m[i][1] # m[j][1]

DensityMaps(keys, densities, n) ==
    {m \in SeqsUpTo(keys \X densities, n) : IsDict(m)}

\* cells [lon, lat, density] of a frame; the week of a frame is never read
AggregateCells == {<<0, 0, 1>>, <<0, 0, 2>>, <<1, 0, 1>>}

AggregateFrames ==
    SeqsUpTo({[cells |-> c] : c \in SeqsUpTo(AggregateCells, MaxFrameCells)},
             MaxFrames)

NormalizeMaps == DensityMaps({<<0, 0>>, <<1, 0>>, <<2, 0>>}, 0..3, MaxCells)

FilterMaps ==
    DensityMaps({<<0, 0>>, <<1, 1>>, <<2, 1>>, <<2, 2>>}, {1, 2}, MaxCells)

FilterRegions ==
    SeqsUpTo({<<0, 1>>, <<1, 2>>} \X {<<0, 1>>, <<1, 2>>}, MaxRegions)

\* west of, on and east of the split; inside and outside the Europe box and the
\* Africa band; south and north of the Americas limit used below
ClusterMaps ==
    DensityMaps({<<-30, 0>>, <<-30, 40>>, <<-20, 40>>, <<10, 40>>, <<10, 0>>,
                 <<60, 40>>}, {1, 2}, MaxCells)

SouthLimits == {<<>>, <<10>>}

ExtremesMaps ==
    DensityMaps({<<0, 0>>, <<1, 0>>, <<0, 1>>, <<0, 2>>, <<1, 2>>}, {1}, MaxCells)

PathMaps ==
    DensityMaps({<<0, 0>>, <<1, 0>>, <<0, 1>>, <<0, 2>>, <<1, 2>>},
                {Rat(1, 2), Rat(1, 1)}, MaxCells)

PathAnchors == {<<0, 0>>, <<1, 0>>, <<0, 2>>, <<1, 2>>}

SmoothPaths ==
    SeqsUpTo({ToRatPoint(<<0, 0>>), ToRatPoint(<<3, 0>>), ToRatPoint(<<1, 3>>)},
             MaxPathLen)

----------------------------------------------------------------------------
(* The functions applied in isolation: one call per behaviour *)

Returned(v) == [raised |-> "", value |-> v]

RunOff ==
    /\ pc = "off"
    /\ input_exists = FALSE
    /\ heatmap = [frames |-> <<>>]
    /\ args = <<>>
    /\ exclude_regions = <<>>
    /\ density_map = <<>>
    /\ normalized = <<>>
    /\ clusters = <<>>
    /\ idx = 0
    /\ paths = <<>>
    /\ output_file = <<>>
    /\ raised = ""

InitFn ==
    /\ fn = "idle"
    /\ fn_args = <<>>
    /\ fn_result = <<>>
    /\ RunOff

Apply_aggregate_density_over_time ==
    /\ fn = "idle"
    /\ \E frames \in AggregateFrames :
          /\ fn_args' = [frames |-> frames]
          /\ fn_result' = Returned(aggregate_density_over_time(frames))
    /\ fn' = "aggregate_density_over_time"
    /\ UNCHANGED run_vars

Apply_normalize_densities ==
    /\ fn = "idle"
    /\ \E m \in NormalizeMaps :
          /\ fn_args' = [density_map |-> m]
          /\ fn_result' = Returned(normalize_densities(m))
    /\ fn' = "normalize_densities"
    /\ UNCHANGED run_vars

Apply_filter_geographic_regions ==
    /\ fn = "idle"
    /\ \E m \in FilterMaps, regions \in FilterRegions :
          /\ fn_args' = [density_map |-> m, exclude_regions |-> regions]
          /\ fn_result' = Returned(filter_geographic_regions(m, regions))
    /\ fn' = "filter_geographic_regions"
    /\ UNCHANGED run_vars

Apply_cluster_by_longitude ==
    /\ fn = "idle"
    /\ \E m \in ClusterMaps, europe_only \in BOOLEAN, limit \in SouthLimits,
          americas_only \in BOOLEAN, africa_only_south \in BOOLEAN :
          /\ fn_args' = [density_map |-> m, europe_only |-> europe_only,
                         americas_south_limit |-> limit,
                         americas_only |-> americas_only,
                         africa_only_south |-> africa_only_south]
          /\ fn_result' = Returned(cluster_by_longitude(m, europe_only, limit,
                                       americas_only, africa_only_south))
    /\ fn' = "cluster_by_longitude"
    /\ UNCHANGED run_vars

Apply_find_extremes_in_cluster ==
    /\ fn = "idle"
    /\ \E m \in ExtremesMaps :
          /\ fn_args' = [density_map |-> m]
          /\ fn_result' = find_extremes_in_cluster(m)
    /\ fn' = "find_extremes_in_cluster"
    /\ UNCHANGED run_vars

Apply_calculate_migration_path ==
    /\ fn = "idle"
    /\ \E m \in PathMaps, north \in PathAnchors, south \in PathAnchors,
          n \in 1..MaxWaypoints :
          /\ fn_args' = [density_map |-> m, north_point |-> north,
                         south_point |-> south, num_waypoints |-> n]
          /\ fn_result' = calculate_migration_path(m, north, south, n)
    /\ fn' = "calculate_migration_path"
    /\ UNCHANGED run_vars

Apply_smooth_path ==
    /\ fn = "idle"
    /\ \E path \in SmoothPaths, w \in 1..MaxWindow :
          /\ fn_args' = [path |-> path, window_size |-> w]
          /\ fn_result' = Returned(smooth_path(path, w))
    /\ fn' = "smooth_path"
    /\ UNCHANGED run_vars

NextFn ==
    \/ Apply_aggregate_density_over_time
    \/ Apply_normalize_densities
    \/ Apply_filter_geographic_regions
    \/ Apply_cluster_by_longitude
    \/ Apply_find_extremes_in_cluster
    \/ Apply_calculate_migration_path
    \/ Apply_smooth_path

SpecFn == InitFn /\ [][NextFn]_vars

----------------------------------------------------------------------------
(* The command-line run: main, then build_migration_json *)

\* the exclusion rectangle of --exclude-new-zealand, line 378
NewZealand == <<<<165, 180>>, <<-55, -25>>>>

UnknownSpecies == "Unknown Species"

PathColor == "#8b0000"

\* cells of the heatmaps read by the run: two western cells, a cell in the
\* Europe box, an eastern cell outside it, a cell in the New Zealand rectangle
RunCells ==
    {<<-100, -40, 1>>, <<-80, 40, 1>>, <<10, 40, 1>>, <<20, -30, 1>>,
     <<170, -40, 1>>}

\* a western flyway with two cells in one latitude band, of densities 1 and
\* 2, and an eastern cell of greater density
WesternBandFrame ==
    [cells |-> <<<<-100, -40, 1>>, <<-90, 0, 1>>, <<-85, 0, 2>>,
                 <<-80, 40, 1>>, <<10, 40, 4>>>>]

RunFrames == {[cells |-> <<>>]} \cup {[cells |-> <<c>>] : c \in RunCells}

\* heatmaps of up to MaxFrames frames of at most one cell, and the heatmap of
\* the one frame WesternBandFrame
Heatmaps ==
    {[frames |-> f] : f \in SeqsUpTo(RunFrames, MaxFrames)}
        \cup {[frames |-> <<WesternBandFrame>>]}

Flags ==
    [exclude_new_zealand : BOOLEAN, europe_only : BOOLEAN,
     americas_south_limit : {<<>>, <<0>>}, americas_only : BOOLEAN,
     africa_only_south : BOOLEAN]

\* the file at output_path before the run: none, or one left by an earlier run
NoFile == <<>>

EarlierFile == <<[speciesName |-> "Earlier Species", color |-> PathColor,
                  paths |-> <<>>]>>

FnIdle ==
    /\ fn = "idle"
    /\ fn_args = <<>>
    /\ fn_result = <<>>

Init ==
    /\ FnIdle
    /\ pc = "main"
    /\ input_exists \in BOOLEAN
    /\ heatmap \in (IF input_exists THEN Heatmaps ELSE {[frames |-> <<>>]})
    /\ args \in Flags
    /\ exclude_regions = <<>>
    /\ density_map = <<>>
    /\ normalized = <<>>
    /\ clusters = <<>>
    /\ idx = 0
    /\ paths = <<>>
    /\ output_file \in {NoFile, EarlierFile}
    /\ raised = ""

\* main without the test of lines 360-361
MainNoCheck ==
    /\ pc = "main"
    /\ pc' = "load"
    /\ exclude_regions' =
           IF args.exclude_new_zealand THEN <<NewZealand>> ELSE <<>>
    /\ UNCHANGED <<fn_vars, input_exists, heatmap, args, density_map,
                   normalized, clusters, idx, paths, output_file, raised>>

\* main, lines 357-385, up to the call of build_migration_json
Main ==
    /\ pc = "main"
    /\ IF ~ input_exists
       THEN /\ pc' = "raised"
            /\ raised' = "FileNotFoundError"
            /\ UNCHANGED exclude_regions
       ELSE /\ pc' = "load"
            /\ exclude_regions' =
                   IF args.exclude_new_zealand THEN <<NewZealand>> ELSE <<>>
            /\ UNCHANGED raised
    /\ UNCHANGED <<fn_vars, input_exists, heatmap, args, density_map,
                   normalized, clusters, idx, paths, output_file>>

\* lines 230-235: load the heatmap and aggregate its frames
Aggregate ==
    /\ pc = "load"
    /\ density_map' = aggregate_density_over_time(heatmap.frames)
    /\ pc' = "check"
    /\ UNCHANGED <<fn_vars, input_exists, heatmap, args, exclude_regions,
                   normalized, clusters, idx, paths, output_file, raised>>

\* a check of the aggregated map that goes on when the map is empty
CheckDensityGoesOn ==
    /\ pc = "check"
    /\ pc' = "filter"
    /\ UNCHANGED <<fn_vars, input_exists, heatmap, args, exclude_regions,
                   density_map, normalized, clusters, idx, paths, output_file,
                   raised>>

\* a check of the aggregated map that raises when the map is empty
CheckDensityRaises ==
    /\ pc = "check"
    /\ pc' = IF density_map = <<>> THEN "raised" ELSE "filter"
    /\ raised' = IF density_map = <<>> THEN "ValueError" ELSE raised
    /\ UNCHANGED <<fn_vars, input_exists, heatmap, args, exclude_regions,
                   density_map, normalized, clusters, idx, paths, output_file>>

\* lines 237-239: an empty aggregated map ends the run by a plain return
CheckDensity ==
    /\ pc = "check"
    /\ pc' = IF density_map = <<>> THEN "returned" ELSE "filter"
    /\ UNCHANGED <<fn_vars, input_exists, heatmap, args, exclude_regions,
                   density_map, normalized, clusters, idx, paths, output_file,
                   raised>>

\* lines 242-245
Filter ==
    /\ pc = "filter"
    /\ density_map' = IF exclude_regions # <<>>
                      THEN filter_geographic_regions(density_map, exclude_regions)
                      ELSE density_map
    /\ pc' = "normalize"
    /\ UNCHANGED <<fn_vars, input_exists, heatmap, args, exclude_regions,
                   normalized, clusters, idx, paths, output_file, raised>>

\* line 248
Normalize ==
    /\ pc = "normalize"
    /\ normalized' = normalize_densities(density_map)
    /\ pc' = "cluster"
    /\ UNCHANGED <<fn_vars, input_exists, heatmap, args, exclude_regions,
                   density_map, clusters, idx, paths, output_file, raised>>

\* lines 251-263
Cluster ==
    /\ pc = "cluster"
    /\ clusters' = cluster_by_longitude(normalized, args.europe_only,
                        args.americas_south_limit, args.americas_only,
                        args.africa_only_south)
    /\ idx' = 0
    /\ pc' = "flyway"
    /\ UNCHANGED <<fn_vars, input_exists, heatmap, args, exclude_regions,
                   density_map, normalized, paths, output_file, raised>>

round_point(p) == <<round3(p[1]), round3(p[2])>>

\* lines 285-291: the record of one flyway
path_record(north_point, south_point, smoothed_path) ==
    [northPoint |-> round_point(ToRatPoint(north_point)),
     southPoint |-> round_point(ToRatPoint(south_point)),
     path |-> [i \in 1..Len(smoothed_path) |-> round_point(smoothed_path[i])]]

\* a loop that takes the first cluster at every turn
first_cluster(cluster_list, i) == cluster_list[1]

\* line 266: the cluster of turn i of the loop over enumerate(clusters)
enumerate(cluster_list, i) == cluster_list[i + 1]

\* lines 267-291: one iteration of the loop over the clusters
Flyway ==
    /\ pc = "flyway"
    /\ idx < Len(clusters)
    /\ LET cluster == enumerate(clusters, idx)
           extremes == find_extremes_in_cluster(cluster)
           north_point == extremes.value[1]
           south_point == extremes.value[2]
           raw_path == calculate_migration_path(cluster, north_point,
                                                south_point, NumWaypoints)
           smoothed_path == smooth_path(raw_path.value, SmoothWindow)
       IN  IF extremes.raised # ""
           THEN /\ pc' = "raised"
                /\ raised' = extremes.raised
                /\ UNCHANGED <<idx, paths>>
           ELSE IF raw_path.raised # ""
           THEN /\ pc' = "raised"
                /\ raised' = raw_path.raised
                /\ UNCHANGED <<idx, paths>>
           ELSE /\ paths' = Append(paths, path_record(north_point, south_point,
                                                      smoothed_path))
                /\ idx' = idx + 1
                /\ UNCHANGED <<pc, raised>>
    /\ UNCHANGED <<fn_vars, input_exists, heatmap, args, exclude_regions,
                   density_map, normalized, clusters, output_file>>

\* a write that is skipped when there is no path
WriteSkipsEmpty ==
    /\ pc = "flyway"
    /\ idx = Len(clusters)
    /\ output_file' = IF paths = <<>> THEN output_file
                      ELSE <<[speciesName |-> UnknownSpecies,
                              color |-> PathColor, paths |-> paths]>>
    /\ pc' = "done"
    /\ UNCHANGED <<fn_vars, input_exists, heatmap, args, exclude_regions,
                   density_map, normalized, clusters, idx, paths, raised>>

\* lines 293-303: after the loop the output file is written
Write ==
    /\ pc = "flyway"
    /\ idx = Len(clusters)
    /\ output_file' = <<[speciesName |-> UnknownSpecies, color |-> PathColor,
                         paths |-> paths]>>
    /\ pc' = "done"
    /\ UNCHANGED <<fn_vars, input_exists, heatmap, args, exclude_regions,
                   density_map, normalized, clusters, idx, paths, raised>>

Next ==
    \/ Main
    \/ Aggregate
    \/ CheckDensity
    \/ Filter
    \/ Normalize
    \/ Cluster
    \/ Flyway
    \/ Write

Spec == Init /\ [][Next]_vars

----------------------------------------------------------------------------
(* CSV text and numbers of the data-reduction and split scripts.           *)
(*                                                                         *)
(* A numeric cell of a CSV file is the sequence of its characters.  A      *)
(* float of these scripts is modelled by its number of hundredths (an      *)
(* integer): the files of the model hold decimal texts with at most two    *)
(* fraction digits, and the scripts only compare, round and print them.    *)
(* The other cells (dates, names, codes) are strings that the scripts copy.*)

Digits == <<"0", "1", "2", "3", "4", "5", "6", "7", "8", "9">>

DigitChar(d) == Digits[d + 1]

DigitValue(c) == (CHOOSE d \in 1..10 : Digits[d] = c) - 1

\* str(n) of an int n >= 0
RECURSIVE str_nat(_)
str_nat(n) ==
    IF n < 10 THEN <<DigitChar(n)>>
    ELSE str_nat(n \div 10) \o <<DigitChar(n % 10)>>

\* str(n) of an int, as csv.DictWriter writes the count
str_int(n) == IF n < 0 THEN <<"-">> \o str_nat(-n) ELSE str_nat(n)

\* repr of a float of h hundredths, as csv.DictWriter writes lat and lon:
\* at least one fraction digit, no trailing zero after it
repr_float(h) ==
    LET a == Abs(h)
        fraction == IF a % 10 = 0 THEN <<DigitChar((a % 100) \div 10)>>
                    ELSE <<DigitChar((a % 100) \div 10), DigitChar(a % 10)>>
    IN  (IF h < 0 THEN <<"-">> ELSE <<>>)
            \o str_nat(a \div 100) \o <<".">> \o fraction

\* the value of a sequence of digits
RECURSIVE nat_value(_)
nat_value(text) ==
    IF text = <<>> THEN 0
    ELSE 10 * nat_value(SubSeq(text, 1, Len(text) - 1))
             + DigitValue(text[Len(text)])

\* int(text) of a decimal integer text
int_text(text) ==
    IF text[1] = "-" THEN - nat_value(Tail(text)) ELSE nat_value(text)

\* float(text) of a decimal text, in hundredths
float_text(text) ==
    LET unsigned == IF text[1] = "-" THEN Tail(text) ELSE text
        dots == {i \in 1..Len(unsigned) : unsigned[i] = "."}
        dot == IF dots = {} THEN Len(unsigned) + 1 ELSE CHOOSE i \in dots : TRUE
        whole == SubSeq(unsigned, 1, dot - 1)
        fraction == SubSeq(unsigned, dot + 1, Len(unsigned))
        padded == SubSeq(fraction \o <<"0", "0">>, 1, 2)
        a == 100 * nat_value(whole) + nat_value(padded)
    IN  IF text[1] = "-" THEN - a ELSE a

\* the rows of a list at a set of positions, as a bag (row |-> copies)
BagOfRows(rows, positions) ==
    [r \in {rows[i] : i \in positions} |->
        Cardinality({i \in positions : rows[i] = r})]

----------------------------------------------------------------------------
(* split_cangoo_combined.py and convert_cangoo_csv_to_json.py *)

\* line 31 of split_cangoo_combined.py
fieldnames ==
    <<"lat", "lon", "date", "count", "comName", "sciName", "countryCode",
      "stateCode", "speciesCode">>

\* writer.writerow(obs), lines 39 and 47: numbers are written by str()
writerow(obs) ==
    [lat |-> repr_float(obs.lat), lon |-> repr_float(obs.lon),
     date |-> obs.date, count |-> str_int(obs.count),
     comName |-> obs.comName, sciName |-> obs.sciName,
     countryCode |-> obs.countryCode, stateCode |-> obs.stateCode,
     speciesCode |-> obs.speciesCode]

\* a csv file: the header and the rows under it
csv_file(rows) == [header |-> fieldnames, rows |-> rows]

\* a second part that starts one record too late
second_half_late(observations, split_point) ==
    SubSeq(observations, split_point + 2, Len(observations))

\* observations[:split_point], line 38
first_half(observations, split_point) == SubSeq(observations, 1, split_point)

\* observations[split_point:], line 46
second_half(observations, split_point) ==
    SubSeq(observations, split_point + 1, Len(observations))

\* split_cangoo_combined: the directory after the run; the input file stays
split_cangoo_combined(cangoo_combined) ==
    LET observations == cangoo_combined.observations
        total_records == Len(observations)
        split_point == total_records \div 2
        part(half) == csv_file([i \in 1..Len(half) |-> writerow(half[i])])
    IN  [raised |-> "",
         split_point |-> split_point,
         cangoo_combined |-> cangoo_combined,
         cangoo_combined_part1 |-> part(first_half(observations, split_point)),
         cangoo_combined_part2 |-> part(second_half(observations, split_point))]

\* lines 24-34 and 43-53 of convert_cangoo_csv_to_json.py: one row read back
read_row(row) ==
    [lat |-> float_text(row.lat), lon |-> float_text(row.lon),
     date |-> row.date, count |-> int_text(row.count),
     comName |-> row.comName, sciName |-> row.sciName,
     countryCode |-> row.countryCode, stateCode |-> row.stateCode,
     speciesCode |-> row.speciesCode]

read_rows(file) == [i \in 1..Len(file.rows) |-> read_row(file.rows[i])]

\* convert_csv_to_json over a directory that holds the two parts: the list
\* built by line 55 and the directory after the run.  Line 81 divides by the
\* number of records before anything is written; of the metadata only the
\* record count and the zero-count summary are modelled.
convert_csv_to_json(dir) ==
    LET observations == read_rows(dir.cangoo_combined_part1)
                            \o read_rows(dir.cangoo_combined_part2)
        zero_counts == Cardinality({i \in 1..Len(observations) :
                                       observations[i].count = 0})
    IN  IF observations = <<>>
        THEN [raised |-> "ZeroDivisionError",
              observations |-> observations,
              cangoo_combined |-> dir.cangoo_combined,
              cangoo_combined_part1 |-> dir.cangoo_combined_part1,
              cangoo_combined_part2 |-> dir.cangoo_combined_part2]
        ELSE [raised |-> "",
              observations |-> observations,
              cangoo_combined |->
                  [metadata |-> [records |-> Len(observations),
                                 missing_count |-> zero_counts],
                   observations |-> observations],
              cangoo_combined_part1 |-> NoFile,
              cangoo_combined_part2 |-> NoFile]

----------------------------------------------------------------------------
(* reduce_2023_data.py and reduce_alberta_2024.py *)

\* Alberta geographic bounds, lines 20-23 of reduce_alberta_2024.py, in
\* hundredths of a degree
ALBERTA_LAT_MIN == 4900
ALBERTA_LAT_MAX == 6000
ALBERTA_LON_MIN == -12000
ALBERTA_LON_MAX == -11000

\* round(x, 0) of a float of h hundredths: the nearest whole number, a tie
\* (a float that ends in .5 is exact) going to the even one
round0(h) ==
    LET q == h \div 100
        r == h % 100
        k == IF r < 50 THEN q
             ELSE IF r > 50 THEN q + 1
             ELSE IF q % 2 = 0 THEN q ELSE q + 1
    IN  100 * k

\* round(x, 1) of a float of h hundredths: the nearest tenth.  A text that
\* ends in 5 hundredths is in no file of the model (the float read from it
\* is not the decimal written, except for the quarters, which go to the
\* even tenth).
round1(h) ==
    LET q == h \div 10
        r == h % 10
        k == IF r < 5 THEN q
             ELSE IF r > 5 THEN q + 1
             ELSE IF q % 2 = 0 THEN q ELSE q + 1
    IN  10 * k

\* lines 29-37 of reduce_2023_data.py: the bin of a row
bin_2023(row) ==
    <<round0(float_text(row.lat)), round0(float_text(row.lon)), row.date>>

\* lines 51-53 of reduce_alberta_2024.py: the bin of an Alberta row
bin_alberta(row) ==
    <<round1(float_text(row.lat)), round1(float_text(row.lon)), row.date>>

\* a test of the Alberta box that leaves its border out
is_alberta_open(lat, lon) ==
    /\ ALBERTA_LAT_MIN < lat /\ lat < ALBERTA_LAT_MAX
    /\ ALBERTA_LON_MIN < lon /\ lon < ALBERTA_LON_MAX

\* lines 45-46 of reduce_alberta_2024.py
is_alberta(lat, lon) ==
    /\ ALBERTA_LAT_MIN <= lat /\ lat <= ALBERTA_LAT_MAX
    /\ ALBERTA_LON_MIN <= lon /\ lon <= ALBERTA_LON_MAX

\* the positions (line numbers) of the rows that go to alberta_bins
alberta_positions(rows) ==
    {i \in 1..Len(rows) :
        is_alberta(float_text(rows[i].lat), float_text(rows[i].lon))}

\* spatial_temporal_bins of reduce_2023_data, as the sets of positions that
\* share a key
spatial_temporal_bins(rows) ==
    LET key == [i \in 1..Len(rows) |-> bin_2023(rows[i])]
    IN  {{j \in 1..Len(rows) : key[j] = key[i]} : i \in 1..Len(rows)}

\* alberta_bins of reduce_alberta_2024, as the sets of positions
alberta_bins(rows) ==
    LET positions == alberta_positions(rows)
        key == [i \in positions |-> bin_alberta(rows[i])]
    IN  {{j \in positions : key[j] = key[i]} : i \in positions}

\* line 59 of reduce_2023_data.py: max(1, len(rows) // 2)
num_to_sample_2023(n) == IF n \div 2 >= 1 THEN n \div 2 ELSE 1

\* line 80 of reduce_alberta_2024.py: max(1, int(len(rows) * 0.4)); the float
\* product n * 0.4 is never below the exact 2n/5 by a whole number
num_to_sample_alberta(n) == IF (2 * n) \div 5 >= 1 THEN (2 * n) \div 5 ELSE 1

\* random.sample over every bin: the sets of positions it can draw in all,
\* for the 2023 file
samples_2023(rows) ==
    LET bins == spatial_temporal_bins(rows)
    IN  {s \in SUBSET (1..Len(rows)) :
            \A b \in bins :
                Cardinality(s \cap b) = num_to_sample_2023(Cardinality(b))}

\* and for the Alberta bins of the 2024 file
samples_alberta(rows) ==
    LET bins == alberta_bins(rows)
    IN  {s \in SUBSET UNION bins :
            \A b \in bins :
                Cardinality(s \cap b) = num_to_sample_alberta(Cardinality(b))}

\* reduce_2023_data over a file of rows, sampled being the draw of
\* random.sample.  random.shuffle makes the order of the rows written
\* arbitrary: the file after the run is the bag of its rows.  Line 85
\* divides by rows_read after the file is replaced.
reduce_2023_data(rows, sampled) ==
    [raised |-> IF Len(rows) = 0 THEN "ZeroDivisionError" ELSE "",
     rows_read |-> Len(rows),
     target_rows |-> Len(rows) \div 2,
     rows_sampled |-> Cardinality(sampled),
     sampled |-> sampled,
     temp_grid_daily_2023 |-> BagOfRows(rows, sampled)]

\* reduce_alberta_2024 over a file of rows, sampled being the draw of
\* random.sample in the Alberta bins.  Line 87 divides by alberta_count
\* before anything is written: without an Alberta row the run fails and the
\* file stays as it was.
reduce_alberta_2024(rows, sampled) ==
    LET alberta_count == Cardinality(alberta_positions(rows))
        non_alberta_rows == (1..Len(rows)) \ alberta_positions(rows)
    IN  IF alberta_count = 0
        THEN [raised |-> "ZeroDivisionError",
              alberta_count |-> alberta_count,
              sampled |-> sampled,
              temp_grid_daily_2024 |-> BagOfRows(rows, 1..Len(rows))]
        ELSE [raised |-> "",
              alberta_count |-> alberta_count,
              sampled |-> sampled,
              temp_grid_daily_2024 |->
                  BagOfRows(rows, sampled \cup non_alberta_rows)]

----------------------------------------------------------------------------
(* build_heatmap.py: latitudes, longitudes and the grid step are in        *)
(* hundredths of a degree, a date is its number of days after 2024-01-01   *)
(* (a Monday), a cell that pandas reads as NaN or NaT is the number NaN   *)

HalfTurn == 18000
FullTurn == 36000
DaysPerWeek == 7

\* stands for NaN and NaT: a number that no date, coordinate or count takes
NaN == 1000000

\* lines 14-16
clamp_lon(lon) == ((lon + HalfTurn) % FullTurn) - HalfTurn

LatCandidates == <<"lat", "latitude", "y">>
LonCandidates == <<"lon", "longitude", "x", "long">>
ValueCandidates == <<"count", "bird_density", "density", "value">>

\* lines 27-33, for column names in lower case: the first candidate that is a
\* column, or "" for None
detect_df_col(columns, candidates) ==
    IF \E i \in 1..Len(candidates) : candidates[i] \in columns
    THEN candidates[CHOOSE i \in 1..Len(candidates) :
                        /\ candidates[i] \in columns
                        /\ \A j \in 1..(i - 1) : candidates[j] \notin columns]
    ELSE ""

\* line 77: the start of the W-MON period of a date, the Tuesday on or
\* before it
week_start(date) == date - ((date - 1) % DaysPerWeek)

\* line 89: the order of sort_values on (week_start, bin_lon, bin_lat)
KeyBefore(a, b) ==
    \/ a[1] < b[1]
    \/ a[1] = b[1] /\ a[2] < b[2]
    \/ a[1] = b[1] /\ a[2] = b[2] /\ a[3] < b[3]

RECURSIVE sort_values(_)
sort_values(keys) ==
    IF keys = {} THEN <<>>
    ELSE LET first == CHOOSE k \in keys :
                          \A other \in keys \ {k} : KeyBefore(k, other)
         IN  <<first>> \o sort_values(keys \ {first})

\* lines 40-106, with date_col "date" and week_freq "W-MON"
build_heatmap_from_dataframe(df, grid_deg) ==
    LET lat_col == detect_df_col(df.columns, LatCandidates)
        lon_col == detect_df_col(df.columns, LonCandidates)
        val_col == detect_df_col(df.columns, ValueCandidates)
    IN  IF "date" \notin df.columns \/ lat_col = "" \/ lon_col = ""
               \/ val_col = ""
        THEN [raised |-> "ValueError", value |-> <<>>]
        ELSE
        LET \* lines 68-74: rows with a missing or non-numeric cell are dropped
            complete(r) == /\ r["date"] # NaN
                           /\ r[lat_col] # NaN
                           /\ r[lon_col] # NaN
                           /\ r[val_col] # NaN
            work == SelectSeq(df.rows, complete)
            \* lines 77-81
            key == [i \in 1..Len(work) |->
                       <<week_start(work[i]["date"]),
                         work[i][lon_col] \div grid_deg,
                         work[i][lat_col] \div grid_deg>>]
            \* lines 84-89
            RECURSIVE sum(_, _)
            sum(k, i) ==
                IF i = 0 THEN 0
                ELSE (IF key[i] = k THEN work[i][val_col] ELSE 0) + sum(k, i - 1)
            grouped == sort_values({key[i] : i \in 1..Len(work)})
            \* lines 98-101
            cell(k) == <<clamp_lon(k[2] * grid_deg + grid_deg \div 2),
                         k[3] * grid_deg + grid_deg \div 2,
                         sum(k, Len(work))>>
            weeks == sort_values({<<grouped[i][1], 0, 0>> :
                                      i \in 1..Len(grouped)})
            frame(week) ==
                LET of_week(k) == k[1] = week
                    sub == SelectSeq(grouped, of_week)
                IN  [week |-> week, cells |-> [i \in 1..Len(sub) |-> cell(sub[i])]]
        IN  [raised |-> "",
             value |-> [i \in 1..Len(weeks) |-> frame(weeks[i][1])]]

----------------------------------------------------------------------------
(* The scripts run on files: split then convert, or one of the reductions *)

\* observations of cangoo_combined.json
CangooObservations ==
    {[lat |-> 5125, lon |-> -11400, date |-> "2023-01-05", count |-> 3,
      comName |-> "Canada Goose", sciName |-> "Branta canadensis",
      countryCode |-> "CA", stateCode |-> "CA-AB", speciesCode |-> "cangoo"],
     [lat |-> 4050, lon |-> -7400, date |-> "2023-02-10", count |-> 0,
      comName |-> "Canada Goose", sciName |-> "Branta canadensis",
      countryCode |-> "US", stateCode |-> "US-NY", speciesCode |-> "cangoo"],
     [lat |-> 4905, lon |-> -12310, date |-> "2023-02-11", count |-> 12,
      comName |-> "Canada Goose", sciName |-> "Branta canadensis",
      countryCode |-> "CA", stateCode |-> "CA-BC", speciesCode |-> "cangoo"]}

CangooFiles ==
    {[observations |-> o] : o \in SeqsUpTo(CangooObservations, MaxRecords)}

\* rows of temp_grid_daily_2023.csv: the first two share a one-degree bin
\* (0.5 rounds to 0), the third is in another
TempRows2023 ==
    {[date |-> "2023-01-01", lat |-> <<"0", ".", "5">>,
      lon |-> <<"1", "0", ".", "0">>, temp_c |-> <<"1", ".", "5">>],
     [date |-> "2023-01-01", lat |-> <<"0", ".", "2", "5">>,
      lon |-> <<"1", "0", ".", "0">>, temp_c |-> <<"2", ".", "0">>],
     [date |-> "2023-01-01", lat |-> <<"1", ".", "5">>,
      lon |-> <<"1", "0", ".", "0">>, temp_c |-> <<"3", ".", "0">>]}

TempFiles2023 == SeqsUpTo(TempRows2023, MaxRows)

\* rows of temp_grid_daily_2024.csv: a corner of the Alberta box, a row of
\* the same tenth-of-a-degree bin inside the box, and a row just north of it
TempRows2024 ==
    {[date |-> "2024-01-01", lat |-> <<"6", "0", ".", "0">>,
      lon |-> <<"-", "1", "1", "0", ".", "0">>, temp_c |-> <<"-", "5", ".", "0">>],
     [date |-> "2024-01-01", lat |-> <<"5", "9", ".", "9", "6">>,
      lon |-> <<"-", "1", "1", "0", ".", "0", "4">>, temp_c |-> <<"-", "4", ".", "0">>],
     [date |-> "2024-01-01", lat |-> <<"6", "0", ".", "0", "1">>,
      lon |-> <<"-", "1", "1", "0", ".", "0">>, temp_c |-> <<"-", "6", ".", "0">>]}

TempFiles2024 == SeqsUpTo(TempRows2024, MaxAlbertaRows)

\* observations of a species table: two in the bin just east of the
\* antimeridian in one week, one at longitude 180 in that week and one in the
\* next, one inland, one east of longitude 180, one without a latitude
Observations ==
    {[date |-> 1, lat |-> 50, lon |-> -17950, count |-> 2],
     [date |-> 7, lat |-> 50, lon |-> -17990, count |-> 4],
     [date |-> 1, lat |-> 50, lon |-> 18000, count |-> 3],
     [date |-> 8, lat |-> 50, lon |-> 18000, count |-> 1],
     [date |-> 1, lat |-> 50, lon |-> 1025, count |-> 1],
     [date |-> 1, lat |-> 50, lon |-> 19050, count |-> 1],
     [date |-> 1, lat |-> NaN, lon |-> 1025, count |-> 1]}

\* tables with the four columns, and a table without a value column
DataFrames ==
    {[columns |-> {"date", "lat", "lon", "count"}, rows |-> r] :
         r \in SeqsUpTo(Observations, MaxObservations)}
        \cup {[columns |-> {"date", "lat", "lon"}, rows |-> <<>>]}

\* --grid-deg: the default of one degree, and two degrees
GridDegs == {100, 200}

Run_split_cangoo_combined ==
    /\ fn = "idle"
    /\ \E cangoo_combined \in CangooFiles :
          /\ fn' = "split_cangoo_combined"
          /\ fn_args' = [cangoo_combined |-> cangoo_combined]
          /\ fn_result' = split_cangoo_combined(cangoo_combined)
    /\ UNCHANGED run_vars

\* the conversion runs in the directory the split left
Run_convert_csv_to_json ==
    /\ fn = "split_cangoo_combined"
    /\ fn' = "convert_csv_to_json"
    /\ fn_args' = fn_result
    /\ fn_result' = convert_csv_to_json(fn_result)
    /\ UNCHANGED run_vars

Run_reduce_2023_data ==
    /\ fn = "idle"
    /\ \E rows \in TempFiles2023 :
          \E sampled \in samples_2023(rows) :
              /\ fn' = "reduce_2023_data"
              /\ fn_args' = [temp_grid_daily_2023 |-> rows]
              /\ fn_result' = reduce_2023_data(rows, sampled)
    /\ UNCHANGED run_vars

Run_reduce_alberta_2024 ==
    /\ fn = "idle"
    /\ \E rows \in TempFiles2024 :
          \E sampled \in samples_alberta(rows) :
              /\ fn' = "reduce_alberta_2024"
              /\ fn_args' = [temp_grid_daily_2024 |-> rows]
              /\ fn_result' = reduce_alberta_2024(rows, sampled)
    /\ UNCHANGED run_vars

Run_build_heatmap_from_dataframe ==
    /\ fn = "idle"
    /\ \E df \in DataFrames, grid_deg \in GridDegs :
          /\ fn' = "build_heatmap_from_dataframe"
          /\ fn_args' = [df |-> df, grid_deg |-> grid_deg]
          /\ fn_result' = build_heatmap_from_dataframe(df, grid_deg)
    /\ UNCHANGED run_vars

NextScripts ==
    \/ Run_split_cangoo_combined
    \/ Run_convert_csv_to_json
    \/ Run_reduce_2023_data
    \/ Run_reduce_alberta_2024
    \/ Run_build_heatmap_from_dataframe

SpecScripts == InitFn /\ [][NextScripts]_vars

----------------------------------------------------------------------------
(* Properties of the functions applied in isolation (checked under SpecFn) *)

Applied(name) == fn = name

Items(m) == {m[i] : i \in 1..Len(m)}

\* C1: for every cluster, every pair of anchors and every waypoint count,
\* calculate_migration_path returns a path whose first waypoint is the south
\* anchor and whose last waypoint is the north anchor.
C1_PathStartsSouthEndsNorth ==
    Applied("calculate_migration_path") =>
        /\ fn_result.raised = ""
        /\ fn_result.value # <<>>
        /\ fn_result.value[1] = ToRatPoint(fn_args.south_point)
        /\ fn_result.value[Len(fn_result.value)] = ToRatPoint(fn_args.north_point)

\* The part of C1 that the code keeps: every path that is returned starts at
\* the south anchor and ends at the north anchor.
C1_ReturnedPathStartsSouthEndsNorth ==
    (Applied("calculate_migration_path") /\ fn_result.raised = "") =>
        /\ fn_result.value # <<>>
        /\ fn_result.value[1] = ToRatPoint(fn_args.south_point)
        /\ fn_result.value[Len(fn_result.value)] = ToRatPoint(fn_args.north_point)

\* C2: with num_waypoints = 1 the call completes without error; it returns
\* [south, north] when the anchors share a latitude and a one-element path
\* when south.lat < north.lat.
C2_OneWaypointCompletes ==
    (Applied("calculate_migration_path") /\ fn_args.num_waypoints = 1) =>
        /\ fn_result.raised = ""
        /\ fn_args.south_point[2] = fn_args.north_point[2] =>
               fn_result.value = <<ToRatPoint(fn_args.south_point),
                                   ToRatPoint(fn_args.north_point)>>
        /\ fn_args.south_point[2] < fn_args.north_point[2] =>
               Len(fn_result.value) = 1

\* C3: normalize_densities keeps the keys, every value lies in [0, 1], and the
\* greatest value is exactly 1 unless the map is empty (result empty) or all
\* densities are zero (all outputs zero, no failure).
C3_NormalizedRange ==
    Applied("normalize_densities") =>
        LET m == fn_args.density_map
            r == fn_result.value
        IN  /\ fn_result.raised = ""
            /\ Len(r) = Len(m)
            /\ Keys(r) = Keys(m)
            /\ \A i \in 1..Len(r) :
                   RatLeq(ToRat(0), r[i][2]) /\ RatLeq(r[i][2], ToRat(1))
            /\ IF \A i \in 1..Len(m) : m[i][2] = 0
               THEN \A i \in 1..Len(r) : r[i][2] = ToRat(0)
               ELSE \E i \in 1..Len(r) : r[i][2] = ToRat(1)

C3_Witness ==
    /\ Applied("normalize_densities")
    /\ \E i, j \in 1..Len(fn_args.density_map) :
          /\ 0 < fn_args.density_map[i][2]
          /\ fn_args.density_map[i][2] < fn_args.density_map[j][2]
          /\ fn_result.value[j][2] = ToRat(1)
          /\ RatLt(fn_result.value[i][2], ToRat(1))

\* the regions of a list in another order
Reordered(regions) ==
    {[i \in 1..Len(regions) |-> regions[p[i]]] :
        p \in Permutations(1..Len(regions))}

InsideSomeRegion(key, regions) ==
    \E j \in 1..Len(regions) :
        /\ regions[j][1][1] <= key[1] /\ key[1] <= regions[j][1][2]
        /\ regions[j][2][1] <= key[2] /\ key[2] <= regions[j][2][2]

\* C4: filter_geographic_regions keeps exactly the cells that lie in none of
\* the rectangles (bounds inclusive), each with its density, and the result
\* does not depend on the order of the rectangles.
C4_FilterKeepsExactlyOutside ==
    Applied("filter_geographic_regions") =>
        LET m == fn_args.density_map
            regions == fn_args.exclude_regions
            r == fn_result.value
        IN  /\ IsDict(r)
            /\ Items(r) = {item \in Items(m) : ~ InsideSomeRegion(item[1], regions)}
            /\ \A other \in Reordered(regions) :
                   filter_geographic_regions(m, other) = r

C4_Witness ==
    /\ Applied("filter_geographic_regions")
    /\ Len(fn_args.exclude_regions) = 2
    /\ fn_args.exclude_regions[1] # fn_args.exclude_regions[2]
    /\ Len(fn_result.value) = 1
    /\ \E item \in Items(fn_args.density_map) :
          /\ item[1][1] = fn_args.exclude_regions[2][1][2]
          /\ ~ InsideSomeRegion(item[1], <<fn_args.exclude_regions[1]>>)
          /\ item \notin Items(fn_result.value)

\* C5: for a non-empty cluster find_extremes_in_cluster returns (north, south),
\* both keys of the cluster, north of the greatest latitude over all cells and
\* south of the least.
C5_ExtremesAreMinMaxLatitude ==
    (Applied("find_extremes_in_cluster") /\ fn_args.density_map # <<>>) =>
        LET m == fn_args.density_map
            north == fn_result.value[1]
            south == fn_result.value[2]
        IN  /\ fn_result.raised = ""
            /\ north \in Keys(m)
            /\ south \in Keys(m)
            /\ \A k \in Keys(m) : south[2] <= k[2] /\ k[2] <= north[2]

C5_Witness ==
    /\ Applied("find_extremes_in_cluster")
    /\ Len(fn_args.density_map) = 2
    /\ fn_result.raised = ""
    /\ fn_result.value[1] = fn_args.density_map[1][1]
    /\ fn_result.value[2] = fn_args.density_map[2][1]
    /\ fn_result.value[2][2] < fn_result.value[1][2]
    /\ fn_result.value[1][1] < fn_result.value[2][1]

\* C6: smooth_path returns its input unchanged whenever the sequence is no
\* longer than the window.
C6_ShortPathUnchanged ==
    (Applied("smooth_path") /\ Len(fn_args.path) <= fn_args.window_size) =>
        fn_result.value = fn_args.path

C6_Witness ==
    /\ Applied("smooth_path")
    /\ Len(fn_args.path) = fn_args.window_size
    /\ Len(fn_args.path) >= 3
    /\ fn_args.path[1] # fn_args.path[2]
    /\ fn_result.value = fn_args.path

\* the positions <<frame, cell>> of the cells of a frame list
CellPositions(frames) ==
    UNION {{<<f, c>> : c \in 1..Len(frames[f].cells)} : f \in 1..Len(frames)}

CellAt(frames, pos) == frames[pos[1]].cells[pos[2]]

RECURSIVE SumOfDensities(_, _)
SumOfDensities(frames, positions) ==
    IF positions = {} THEN 0
    ELSE LET pos == CHOOSE q \in positions : TRUE
         IN  CellAt(frames, pos)[3] + SumOfDensities(frames, positions \ {pos})

\* C7: the keys of aggregate_density_over_time(frames) are exactly the
\* (lon, lat) pairs of the cells of the frames, and the value at a key is the
\* sum of the densities of all cells with that pair (repeated cells of one
\* frame included); an empty frame list gives an empty map.
C7_AggregateSumsPerCoordinate ==
    Applied("aggregate_density_over_time") =>
        LET frames == fn_args.frames
            r == fn_result.value
            at(key) == {pos \in CellPositions(frames) :
                           <<CellAt(frames, pos)[1], CellAt(frames, pos)[2]>> = key}
        IN  /\ fn_result.raised = ""
            /\ IsDict(r)
            /\ Keys(r) = {<<CellAt(frames, pos)[1], CellAt(frames, pos)[2]>> :
                              pos \in CellPositions(frames)}
            /\ \A i \in 1..Len(r) : r[i][2] = SumOfDensities(frames, at(r[i][1]))
            /\ frames = <<>> => r = <<>>

C7_Witness ==
    /\ Applied("aggregate_density_over_time")
    /\ Len(fn_args.frames) = 2
    /\ Len(fn_args.frames[1].cells) = 2
    /\ fn_args.frames[1].cells[1] = fn_args.frames[1].cells[2]
    /\ Len(fn_args.frames[2].cells) = 2
    /\ Len(fn_result.value) = 2
    /\ fn_result.value[1][2] = 5

DefaultOptions ==
    /\ ~ fn_args.europe_only
    /\ fn_args.americas_south_limit = <<>>
    /\ ~ fn_args.americas_only
    /\ ~ fn_args.africa_only_south

C13_EmptyClusterRaises ==
    (Applied("find_extremes_in_cluster") /\ fn_args.density_map = <<>>) =>
        /\ fn_result.raised = "ValueError"
        /\ fn_result.value = <<>>

C13_Witness ==
    /\ Applied("find_extremes_in_cluster")
    /\ fn_args.density_map = <<>>
    /\ fn_result.raised = "ValueError"

\* whether a cell is in some cluster of a result
InSomeCluster(item, r) == \E c \in 1..Len(r) : item \in Items(r[c])

AtLatitude(m, lat) == {i \in 1..Len(m) : m[i][1][2] = lat}

FirstOf(S) == CHOOSE i \in S : \A j \in S : i <= j

LastOf(S) == CHOOSE i \in S : \A j \in S : j <= i

\* C18: when several cells tie for the greatest or for the least latitude,
\* find_extremes_in_cluster returns in each case the tied cell that comes first
\* in the iteration order of the cluster.
C18_TiesGoToFirst ==
    (Applied("find_extremes_in_cluster") /\ fn_args.density_map # <<>>) =>
        LET m == fn_args.density_map
            north == fn_result.value[1]
            south == fn_result.value[2]
        IN  /\ north = m[FirstOf(AtLatitude(m, north[2]))][1]
            /\ south = m[FirstOf(AtLatitude(m, south[2]))][1]

\* C18 as the code has it: of the cells tied for the least latitude the first
\* in iteration order is the south point; of the cells tied for the greatest
\* latitude the last in iteration order is the north point.
C18_SouthFirstNorthLast ==
    (Applied("find_extremes_in_cluster") /\ fn_args.density_map # <<>>) =>
        LET m == fn_args.density_map
            north == fn_result.value[1]
            south == fn_result.value[2]
        IN  /\ fn_result.raised = ""
            /\ \A k \in Keys(m) : south[2] <= k[2] /\ k[2] <= north[2]
            /\ north = m[LastOf(AtLatitude(m, north[2]))][1]
            /\ south = m[FirstOf(AtLatitude(m, south[2]))][1]

C18_Witness ==
    /\ Applied("find_extremes_in_cluster")
    /\ Len(fn_args.density_map) = 3
    /\ fn_args.density_map[1][1][2] = fn_args.density_map[2][1][2]
    /\ fn_args.density_map[3][1][2] > fn_args.density_map[1][1][2]
    /\ fn_result.value[1] = fn_args.density_map[3][1]
    /\ fn_result.value[2] = fn_args.density_map[1][1]

\* the call builds bands: the north anchor is north of the south anchor and
\* there are at least two waypoints
BandsBuilt ==
    /\ Applied("calculate_migration_path")
    /\ fn_args.north_point[2] > fn_args.south_point[2]
    /\ fn_args.num_waypoints >= 2

\* the cells of the cluster in band i (from 0): target_i - step/2 <= lat <=
\* target_i + step/2 with step = (north.lat - south.lat)/(N - 1) and
\* target_i = south.lat + i*step, all multiplied by 2(N - 1)
InBand(i) ==
    LET n1 == fn_args.num_waypoints - 1
        lat_range == fn_args.north_point[2] - fn_args.south_point[2]
        centre == 2 * n1 * fn_args.south_point[2] + 2 * i * lat_range
    IN  {item \in Items(fn_args.density_map) :
            /\ centre - lat_range <= 2 * n1 * item[1][2]
            /\ 2 * n1 * item[1][2] <= centre + lat_range}

TargetLat(i) ==
    Rat(fn_args.south_point[2] * (fn_args.num_waypoints - 1)
            + i * (fn_args.north_point[2] - fn_args.south_point[2]),
        fn_args.num_waypoints - 1)

\* C19: with north.lat > south.lat and N >= 2, for every band that holds a
\* cluster cell, the waypoint generated for the band (before the ends are set
\* to the anchors) is a cell of the cluster in the band whose density is the
\* greatest of the cells in the band.
C19_BandPicksDensest ==
    BandsBuilt =>
        /\ fn_result.raised = ""
        /\ Len(fn_result.generated) = fn_args.num_waypoints
        /\ \A i \in 0..(fn_args.num_waypoints - 1) :
               InBand(i) # {} =>
                   \E item \in InBand(i) :
                       /\ fn_result.generated[i + 1] = ToRatPoint(item[1])
                       /\ \A other \in InBand(i) : RatLeq(other[2], item[2])

C19_Witness ==
    /\ BandsBuilt
    /\ Len(fn_args.density_map) >= 2
    /\ fn_args.density_map[1][1][2] = fn_args.density_map[2][1][2]
    /\ RatLt(fn_args.density_map[1][2], fn_args.density_map[2][2])
    /\ fn_args.density_map[2] \in InBand(0)
    /\ fn_result.generated[1] = ToRatPoint(fn_args.density_map[2][1])
    /\ fn_result.value[1] # fn_result.generated[1]

\* C20: when no cluster cell falls in band i, the waypoint generated for the
\* band is (lon, target_i), lon being the longitude of the waypoint generated
\* for band i-1, or of the south anchor when i = 0.
C20_EmptyBandPlaceholder ==
    BandsBuilt =>
        /\ fn_result.raised = ""
        /\ Len(fn_result.generated) = fn_args.num_waypoints
        /\ \A i \in 0..(fn_args.num_waypoints - 1) :
               InBand(i) = {} =>
                   fn_result.generated[i + 1] =
                       <<IF i = 0 THEN ToRat(fn_args.south_point[1])
                                  ELSE fn_result.generated[i][1],
                         TargetLat(i)>>

C20_Witness ==
    /\ BandsBuilt
    /\ fn_args.num_waypoints = 3
    /\ InBand(0) # {}
    /\ InBand(1) = {}
    /\ fn_result.generated[1][1] # ToRat(fn_args.south_point[1])
    /\ fn_result.generated[2] = <<fn_result.generated[1][1], TargetLat(1)>>
    /\ \A k \in Keys(fn_args.density_map) :
           ToRatPoint(k) # fn_result.generated[2]

\* C21: when the north and south anchors have the same latitude,
\* calculate_migration_path returns exactly the two-element sequence
\* [south, north], for every cluster and every waypoint count, and no band is
\* searched (no waypoint is generated).
C21_EqualLatitudesGiveTwoPoints ==
    (Applied("calculate_migration_path")
        /\ fn_args.north_point[2] = fn_args.south_point[2]) =>
        /\ fn_result.raised = ""
        /\ fn_result.value = <<ToRatPoint(fn_args.south_point),
                               ToRatPoint(fn_args.north_point)>>
        /\ fn_result.generated = <<>>

C21_Witness ==
    /\ Applied("calculate_migration_path")
    /\ fn_args.north_point[2] = fn_args.south_point[2]
    /\ fn_args.north_point # fn_args.south_point
    /\ fn_args.num_waypoints = 1
    /\ Len(fn_args.density_map) = 3
    /\ fn_result.value = <<ToRatPoint(fn_args.south_point),
                           ToRatPoint(fn_args.north_point)>>

\* the anchors of the call are those find_extremes_in_cluster computes for
\* the cluster of the call
AnchorsAreExtremes ==
    /\ Applied("calculate_migration_path")
    /\ fn_args.density_map # <<>>
    /\ find_extremes_in_cluster(fn_args.density_map).value
           = <<fn_args.north_point, fn_args.south_point>>

\* C26: the path returned by calculate_migration_path, called with the
\* anchors computed by find_extremes_in_cluster for the same cluster and
\* N >= 2, has non-decreasing latitudes from first to last waypoint, and
\* every latitude lies in [south.lat, north.lat].
C26_LatitudesNonDecreasing ==
    (AnchorsAreExtremes /\ fn_args.num_waypoints >= 2) =>
        LET path == fn_result.value
        IN  /\ fn_result.raised = ""
            /\ path # <<>>
            /\ \A i \in 1..(Len(path) - 1) : RatLeq(path[i][2], path[i + 1][2])
            /\ \A i \in 1..Len(path) :
                   /\ RatLeq(ToRat(fn_args.south_point[2]), path[i][2])
                   /\ RatLeq(path[i][2], ToRat(fn_args.north_point[2]))

C26_Witness ==
    /\ AnchorsAreExtremes
    /\ fn_args.num_waypoints = 4
    /\ Len(fn_args.density_map) = 3
    /\ fn_args.north_point[2] = 2
    /\ fn_args.south_point[2] = 0
    /\ fn_result.value[2] = fn_result.value[3]
    /\ fn_result.value[2][2] = ToRat(1)
    /\ fn_result.value[4] = ToRatPoint(fn_args.north_point)

\* the mean of coordinate c of the points lo..hi of a path
MeanOf(path, lo, hi, c) ==
    RatDivInt(sum_coordinate(SubSeq(path, lo, hi), c), hi - lo + 1)

\* point i of the result is the mean of the input points at most W \div 2
\* places from i
SmoothedAt(i) ==
    LET path == fn_args.path
        half == fn_args.window_size \div 2
        lo == IF i - half >= 1 THEN i - half ELSE 1
        hi == IF i + half <= Len(path) THEN i + half ELSE Len(path)
    IN  fn_result.value[i] = <<MeanOf(path, lo, hi, 1), MeanOf(path, lo, hi, 2)>>

\* the number of input points in the window centred on i
WindowPoints(i) ==
    LET path == fn_args.path
        half == fn_args.window_size \div 2
        lo == IF i - half >= 1 THEN i - half ELSE 1
        hi == IF i + half <= Len(path) THEN i + half ELSE Len(path)
    IN  hi - lo + 1

\* C22: for every waypoint sequence longer than the window size W (odd or
\* even), smooth_path returns a sequence of the same length in which point i
\* is the mean, of longitude and of latitude, of the input points in a window
\* centred on i and truncated at the ends of the sequence, and that window
\* never holds more than W input points.
C22_WindowOfAtMostW ==
    (Applied("smooth_path") /\ Len(fn_args.path) > fn_args.window_size) =>
        /\ Len(fn_result.value) = Len(fn_args.path)
        /\ \A i \in 1..Len(fn_args.path) :
               /\ SmoothedAt(i)
               /\ WindowPoints(i) <= fn_args.window_size

\* C22 for odd window sizes only, where it holds
C22_OddWindowOfAtMostW ==
    (Applied("smooth_path") /\ Len(fn_args.path) > fn_args.window_size
        /\ fn_args.window_size % 2 = 1) =>
        /\ Len(fn_result.value) = Len(fn_args.path)
        /\ \A i \in 1..Len(fn_args.path) :
               /\ SmoothedAt(i)
               /\ WindowPoints(i) <= fn_args.window_size

\* C22 without the bound on the window, for every window size
C22_MeanOfCentredWindow ==
    (Applied("smooth_path") /\ Len(fn_args.path) > fn_args.window_size) =>
        /\ Len(fn_result.value) = Len(fn_args.path)
        /\ \A i \in 1..Len(fn_args.path) : SmoothedAt(i)

\* a path whose latitudes never decrease
NonDecreasing(path) ==
    \A i \in 1..(Len(path) - 1) : RatLeq(path[i][2], path[i + 1][2])

\* coordinate c of a point lies between the least and the greatest
\* coordinate c of a path
WithinRangeOf(point, path, c) ==
    /\ \E k \in 1..Len(path) : RatLeq(path[k][c], point[c])
    /\ \E k \in 1..Len(path) : RatLeq(point[c], path[k][c])

----------------------------------------------------------------------------
(* Properties of the command-line run (checked under Spec) *)

\* C9: in every path record emitted by build_migration_json the first waypoint
\* of the path equals the record's southPoint and the last waypoint equals the
\* record's northPoint.
C9_EmittedPathEndsAtAnchors ==
    \A i \in 1..Len(paths) :
        /\ paths[i].path[1] = paths[i].southPoint
        /\ paths[i].path[Len(paths[i].path)] = paths[i].northPoint

\* the heatmap holds no cell at all, so its frames aggregate to zero cells
ZeroCells == \A f \in 1..Len(heatmap.frames) : heatmap.frames[f].cells = <<>>

\* C10: when the frames aggregate to zero cells no output file is written: no
\* step of the run reaches the end of the write step or changes the file at the
\* output path.
C10_EmptyMapWritesNothing ==
    [][(input_exists /\ ZeroCells) => (pc' # "done" /\ output_file' = output_file)]_vars

C10_Witness ==
    /\ pc = "returned"
    /\ ZeroCells
    /\ density_map = <<>>
    /\ Len(heatmap.frames) = 2
    /\ output_file = EarlierFile

C12_MissingInputFailsFirst ==
    [][(~ input_exists) =>
          /\ pc' = "raised"
          /\ raised' = "FileNotFoundError"
          /\ UNCHANGED <<output_file, density_map, normalized, clusters, paths>>]_vars

C12_Witness ==
    /\ ~ input_exists
    /\ pc = "raised"
    /\ raised = "FileNotFoundError"
    /\ output_file = EarlierFile
    /\ density_map = <<>>

\* the record that lines 267-291 build from one cluster alone
RecordOf(cluster) ==
    LET extremes == find_extremes_in_cluster(cluster).value
        raw_path == calculate_migration_path(cluster, extremes[1], extremes[2],
                                             NumWaypoints).value
    IN  path_record(extremes[1], extremes[2], smooth_path(raw_path, SmoothWindow))

\* the records of a run over the cells of one side of the split only: the
\* filtered map cut down to that side, normalised and clustered again
RecordsOfSide(west) ==
    LET on_side(item) == (item[1][1] < LonSplit) <=> west
        side == cluster_by_longitude(
                    normalize_densities(SelectSeq(density_map, on_side)),
                    args.europe_only, args.americas_south_limit,
                    args.americas_only, args.africa_only_south)
    IN  [i \in 1..Len(side) |-> RecordOf(side[i])]

LoopEntered == pc \in {"flyway", "done"}

\* C23: build_migration_json emits exactly one path record per cluster
\* returned by cluster_by_longitude, in the same order (western flyway before
\* eastern), each record carrying the north point, south point and waypoints
\* of its own cluster; the record of one cluster does not depend on the cells
\* of the other cluster.
C23_OneRecordPerCluster ==
    LoopEntered =>
        /\ Len(paths) = idx
        /\ idx <= Len(clusters)
        /\ \A i \in 1..Len(paths) :
               /\ paths[i] = RecordOf(clusters[i])
               /\ RecordsOfSide(clusters[i][1][1][1] < LonSplit) = <<paths[i]>>
        /\ Len(paths) = 2 =>
               /\ clusters[1][1][1][1] < LonSplit
               /\ clusters[2][1][1][1] >= LonSplit
        /\ pc = "done" =>
               /\ Len(paths) = Len(clusters)
               /\ output_file[1].paths = paths

C23_Witness ==
    /\ pc = "done"
    /\ Len(clusters) = 2
    /\ Len(clusters[1]) = 4
    /\ \A i \in 1..Len(clusters[1]) : RatLt(clusters[1][i][2], ToRat(1))
    /\ Len(output_file[1].paths) = 2
    /\ output_file[1].paths[1] = RecordOf(clusters[1])
    /\ output_file[1].paths[2] = RecordOf(clusters[2])
    /\ output_file[1].paths[1] # output_file[1].paths[2]

\* C24: for every heatmap and every combination of exclusion regions and
\* restriction options, build_migration_json passes no empty cluster to
\* find_extremes_in_cluster: the empty-input error of the extremes finder is
\* not reached from the orchestration.
C24_NoEmptyClusterReachesExtremes ==
    /\ raised # "ValueError"
    /\ pc = "raised" => raised = "FileNotFoundError"
    /\ LoopEntered =>
           \A i \in 1..Len(clusters) :
               /\ clusters[i] # <<>>
               /\ find_extremes_in_cluster(clusters[i]).raised = ""

C24_Witness ==
    /\ pc = "done"
    /\ args.americas_only
    /\ \E i \in 1..Len(normalized) : normalized[i][1][1] >= LonSplit
    /\ \E i \in 1..Len(normalized) : normalized[i][1][1] < LonSplit
    /\ Len(clusters) = 1
    /\ Len(paths) = 1
    /\ raised = ""

\* the latitudes of the cells of a cluster
LatitudesOf(cluster) == {cluster[i][1][2] : i \in 1..Len(cluster)}

\* C25: calculate_migration_path with north.lat > south.lat and N >= 2
\* returns exactly N waypoints; so every path record written by
\* build_migration_json has exactly 25 waypoints when its cluster spans more
\* than one latitude and exactly 2 when all its cells share one latitude.
C25_WaypointCounts ==
    LoopEntered =>
        \A i \in 1..Len(paths) :
            LET cluster == clusters[i]
                extremes == find_extremes_in_cluster(cluster).value
            IN  /\ Len(paths[i].path) =
                       IF Cardinality(LatitudesOf(cluster)) > 1 THEN 25 ELSE 2
                /\ extremes[1][2] > extremes[2][2] =>
                       \A n \in 2..MaxWaypoints :
                           LET r == calculate_migration_path(cluster,
                                        extremes[1], extremes[2], n)
                           IN  r.raised = "" /\ Len(r.value) = n
                /\ pc = "done" =>
                       Len(output_file[1].paths[i].path) = Len(paths[i].path)

C25_Witness ==
    /\ pc = "done"
    /\ Len(output_file[1].paths) = 2
    /\ Len(output_file[1].paths[1].path) = 25
    /\ Len(output_file[1].paths[2].path) = 2
    /\ Cardinality(LatitudesOf(clusters[1])) = 3
    /\ Len(clusters[2]) = 1

\* the raw path of a cluster: what line 277 gets from calculate_migration_path
RawPathOf(cluster) ==
    LET extremes == find_extremes_in_cluster(cluster).value
    IN  calculate_migration_path(cluster, extremes[1], extremes[2],
                                 NumWaypoints).value

\* C28: every waypoint of the raw path built in build_migration_json has a
\* longitude that is the longitude of some cell of its cluster.
C28_RawLongitudesAreCellLongitudes ==
    LoopEntered =>
        \A i \in 1..Len(paths) :
            LET raw == RawPathOf(clusters[i])
            IN  \A k \in 1..Len(raw) :
                    \E key \in Keys(clusters[i]) : raw[k][1] = ToRat(key[1])

C28_Witness ==
    /\ pc = "done"
    /\ Len(paths) >= 1
    /\ Len(clusters[1]) = 2
    /\ Len(RawPathOf(clusters[1])) = 25
    /\ \A key \in Keys(clusters[1]) : ToRatPoint(key) # RawPathOf(clusters[1])[2]
    /\ RawPathOf(clusters[1])[2][1] = RawPathOf(clusters[1])[1][1]

\* the aggregated map of the run has cells, and the exclusion rectangles and
\* the restrictions of the clusters remove them all
AllCellsRemoved ==
    LET aggregated == aggregate_density_over_time(heatmap.frames)
        regions == IF args.exclude_new_zealand THEN <<NewZealand>> ELSE <<>>
        filtered == IF regions # <<>>
                    THEN filter_geographic_regions(aggregated, regions)
                    ELSE aggregated
    IN  /\ input_exists
        /\ aggregated # <<>>
        /\ cluster_by_longitude(normalize_densities(filtered),
                                args.europe_only, args.americas_south_limit,
                                args.americas_only, args.africa_only_south) = <<>>

EmptyPathsFile ==
    <<[speciesName |-> UnknownSpecies, color |-> PathColor, paths |-> <<>>]>>

\* C29: when the aggregated density map is non-empty but every cell is
\* removed afterwards, by the exclusion rectangles or by the restrictions of
\* the clusters, build_migration_json still completes normally and writes an
\* output file whose paths list is empty.
C29_AllRemovedWritesEmptyPaths ==
    AllCellsRemoved =>
        /\ raised = ""
        /\ pc \notin {"returned", "raised"}
        /\ pc = "done" => output_file = EmptyPathsFile
        /\ pc # "done" => ENABLED Next

C29_Witness ==
    /\ AllCellsRemoved
    /\ pc = "done"
    /\ args.exclude_new_zealand
    /\ Keys(aggregate_density_over_time(heatmap.frames)) = {<<170, -40>>}
    /\ output_file = EmptyPathsFile

C29_WitnessByRestriction ==
    /\ AllCellsRemoved
    /\ pc = "done"
    /\ ~ args.exclude_new_zealand
    /\ args.americas_only
    /\ density_map # <<>>
    /\ output_file = EmptyPathsFile

----------------------------------------------------------------------------
(* Properties of the split, convert and reduction scripts (checked under   *)
(* SpecScripts)                                                            *)

\* C15: splitting then converting back is a round trip.  The rows written to
\* part 1 followed by the rows written to part 2 are the original observations
\* in their order, part 1 holding the first total // 2 records and part 2 the
\* rest, sizes differing by at most one; convert_csv_to_json reading part 1
\* then part 2 rebuilds a list of the same records in the same order.
C15_SplitConvertRoundTrip ==
    /\ Applied("split_cangoo_combined") =>
          LET original == fn_args.cangoo_combined.observations
              part1 == fn_result.cangoo_combined_part1.rows
              part2 == fn_result.cangoo_combined_part2.rows
              written == part1 \o part2
          IN  /\ Len(part1) = Len(original) \div 2
              /\ Len(written) = Len(original)
              /\ Len(part2) - Len(part1) \in {0, 1}
              /\ \A i \in 1..Len(original) :
                    /\ float_text(written[i].lat) = original[i].lat
                    /\ float_text(written[i].lon) = original[i].lon
                    /\ int_text(written[i].count) = original[i].count
                    /\ written[i].date = original[i].date
                    /\ written[i].comName = original[i].comName
                    /\ written[i].sciName = original[i].sciName
                    /\ written[i].countryCode = original[i].countryCode
                    /\ written[i].stateCode = original[i].stateCode
                    /\ written[i].speciesCode = original[i].speciesCode
    /\ Applied("convert_csv_to_json") =>
          LET original == fn_args.cangoo_combined.observations
              rebuilt == fn_result.observations
          IN  /\ Len(rebuilt) = Len(original)
              /\ \A i \in 1..Len(original) : rebuilt[i] = original[i]

C15_Witness ==
    /\ Applied("convert_csv_to_json")
    /\ Len(fn_args.cangoo_combined.observations) = 3
    /\ Len(fn_args.cangoo_combined_part1.rows) = 1
    /\ Len(fn_args.cangoo_combined_part2.rows) = 2
    /\ Cardinality(Items(fn_args.cangoo_combined.observations)) = 3
    /\ fn_result.observations = fn_args.cangoo_combined.observations
    /\ fn_result.cangoo_combined.observations = fn_result.observations

\* C16: reduce_2023_data reduces the data by 50%: the number of rows it writes
\* equals the target it computes, rows_read // 2, for every input file.
C16_WritesTargetRows ==
    Applied("reduce_2023_data") =>
        /\ fn_result.target_rows = Len(fn_args.temp_grid_daily_2023) \div 2
        /\ BagCardinality(fn_result.temp_grid_daily_2023) = fn_result.target_rows

\* C17: reduce_alberta_2024 keeps all non-Alberta data.  The file after the
\* run holds every input row outside the Alberta box (lat in [49, 60], lon in
\* [-120, -110], bounds included) exactly once, holds only input rows, and
\* of each Alberta bin of n rows exactly max(1, floor(0.4 n)) distinct rows.
C17_KeepsNonAlberta ==
    Applied("reduce_alberta_2024") =>
        LET rows == fn_args.temp_grid_daily_2024
            lat == [i \in 1..Len(rows) |-> float_text(rows[i].lat)]
            lon == [i \in 1..Len(rows) |-> float_text(rows[i].lon)]
            box == {i \in 1..Len(rows) :
                       /\ 4900 <= lat[i] /\ lat[i] <= 6000
                       /\ -12000 <= lon[i] /\ lon[i] <= -11000}
            outside == (1..Len(rows)) \ box
            bin == [i \in box |->
                       <<round1(lat[i]), round1(lon[i]), rows[i].date>>]
            kept == fn_result.sampled
            Quota(n) == IF (4 * n) \div 10 >= 1 THEN (4 * n) \div 10 ELSE 1
        IN  /\ kept \subseteq box
            /\ fn_result.temp_grid_daily_2024 = BagOfRows(rows, outside \cup kept)
            /\ \A k \in {bin[i] : i \in box} :
                  LET same == {j \in box : bin[j] = k}
                  IN  Cardinality(kept \cap same) = Quota(Cardinality(same))

C17_Witness ==
    /\ Applied("reduce_alberta_2024")
    /\ fn_result.raised = ""
    /\ Len(fn_args.temp_grid_daily_2024) = 6
    /\ fn_result.alberta_count = 5
    /\ Cardinality(fn_result.sampled) = 2
    /\ Cardinality(Items(fn_args.temp_grid_daily_2024)) = 3
    /\ BagCardinality(fn_result.temp_grid_daily_2024) = 3

\* the (lon, lat) centres of the cells of a frame
CentresOf(frame) == {<<frame.cells[i][1], frame.cells[i][2]>> :
                         i \in 1..Len(frame.cells)}

\* C30: in every frame returned by build_heatmap_from_dataframe no two cells
\* share a (lon, lat) centre and every cell longitude lies in [-180, 180),
\* for every input, observations at longitude 180 or outside [-180, 180)
\* included.
C30_CellsUniqueInRange ==
    (Applied("build_heatmap_from_dataframe") /\ fn_result.raised = "") =>
        \A f \in 1..Len(fn_result.value) :
            LET frame == fn_result.value[f]
            IN  /\ Cardinality(CentresOf(frame)) = Len(frame.cells)
                /\ \A i \in 1..Len(frame.cells) :
                       /\ -HalfTurn <= frame.cells[i][1]
                       /\ frame.cells[i][1] < HalfTurn

\* the part of C30 on the range alone: every cell longitude lies in
\* [-180, 180)
C30_LongitudesInRange ==
    (Applied("build_heatmap_from_dataframe") /\ fn_result.raised = "") =>
        \A f \in 1..Len(fn_result.value) :
            \A i \in 1..Len(fn_result.value[f].cells) :
                /\ -HalfTurn <= fn_result.value[f].cells[i][1]
                /\ fn_result.value[f].cells[i][1] < HalfTurn

\* an observation at longitude 180 and one at longitude -179.5 of the same
\* week and latitude: two cells of one frame at the centre (-179.5, 0.5)
C30_TwoCellsOneCentre ==
    /\ Applied("build_heatmap_from_dataframe")
    /\ fn_args.grid_deg = 100
    /\ Len(fn_args.df.rows) = 2
    /\ fn_result.raised = ""
    /\ Len(fn_result.value) = 1
    /\ fn_result.value[1].cells = <<<<-17950, 50, 2>>, <<-17950, 50, 3>>>>

====
